---- MODULE Spec2Model ----
(***************************************************************************)
(* A model of gdown/download_folder.py: get_folder_list (the recursive     *)
(* resolution of a shared Drive folder into a tree), get_directory_        *)
(* structure (the flattening of that tree into a list of local paths) and  *)
(* download_folder (the loop that creates directories and fetches files).  *)
(*                                                                         *)
(* Strings that the code slices or matches (URLs, ids, names, titles,      *)
(* script text) are sequences of one-character strings.  Python's None is  *)
(* the empty option <<>>, a present value x is <<x>>, so that None and the *)
(* empty list stay different values.                                       *)
(***************************************************************************)
EXTENDS Integers, Sequences, FiniteSets, TLC

VARIABLES
    remote,               \* the shared folders as the host serves them: id -> rows
    stack,                \* the activation records of get_folder_list, outermost first
    pc,                   \* where download_folder (or the pure function under check) is
    ret,                  \* what the outermost get_folder_list returned: <<code, tree>>
    fetchLog,             \* every client.get so far: [folder |-> url, ok |-> status = 200]
    directory_structure,  \* the list get_directory_structure returned
    k,                    \* position of the next entry of directory_structure
    dirs,                 \* the local directories that exist
    files,                \* the local files the download primitive has written
    executed,             \* the entries processed so far: [idx, ok]
    return_code,          \* download_folder's return_code
    inner_html,           \* extraction: the script blocks of the page under check
    encoded_data,         \* extraction: the outcome for inner_html
    entry_id,             \* url round trip: the id of a folder row
    node_id               \* url round trip: the file_id the callee computes for it

vars == <<remote, stack, pc, ret, fetchLog, directory_structure, k, dirs, files,
          executed, return_code, inner_html, encoded_data, entry_id, node_id>>

buildVars == <<remote, stack, ret, fetchLog>>
runVars == <<directory_structure, k, dirs, files, executed, return_code>>
pureVars == <<inner_html, encoded_data, entry_id, node_id>>

(***************************************************************************)
(* Bounds of the model.                                                    *)
(***************************************************************************)
MaxRows == 2        \* rows in one listing
StackCap == 4       \* nested get_folder_list calls the interpreter allows
MaxScriptLen == 5   \* characters in one script block
MaxIdLen == 3       \* characters in a folder id

(***************************************************************************)
(* Options, and small helpers on sequences.                                *)
(***************************************************************************)
None == <<>>
Some(x) == <<x>>
IsNone(o) == o = <<>>
Get(o) == o[1]

Last(s) == s[Len(s)]
Front(s) == SubSeq(s, 1, Len(s) - 1)
\* Python's s[n:]
SliceFrom(s, n) == SubSeq(s, n + 1, Len(s))

InjSeqs(S, n) ==
    { s \in UNION { [1..m -> S] : m \in 0..n } :
        \A i, j \in DOMAIN s : s[i] = s[j] => i = j }

(***************************************************************************)
(* Module-level constants of download_folder.py.                           *)
(***************************************************************************)
folders_url ==
    <<"h", "t", "t", "p", "s", ":", "/", "/", "d", "r", "i", "v", "e", ".",
      "g", "o", "o", "g", "l", "e", ".", "c", "o", "m", "/", "d", "r", "i",
      "v", "e", "/", "f", "o", "l", "d", "e", "r", "s", "/">>
folder_type == "application/vnd.google-apps.folder"
\* the 39 of folder[39:]
IdOffset == 39

(***************************************************************************)
(* The remote side: three shared folders and the rows their pages can      *)
(* hold.  A row is the list the page embeds: row[1] the id, row[3] the     *)
(* display name, row[4] the type string (Python's i[0], i[2], i[3]).       *)
(***************************************************************************)
RootId == <<"r">>
SubId == <<"s">>
DirId == <<"t">>
FolderIds == {RootId, SubId, DirId}

NameRoot == <<"r", "o", "o", "t">>
NameSub == <<"s", "u", "b">>
NameDir == <<"m", "y", " ", "d", "i", "r">>

RowS == <<SubId, None, NameSub, folder_type>>
RowT == <<DirId, None, NameDir, folder_type>>
RowA == << <<"a">>, None, <<"f", "A">>, "text/plain" >>
RowB == << <<"b">>, None, <<"f", " ", "B">>, "image/png" >>
RowC == << <<"c">>, None, <<"f", "C">>, "application/vnd.google-apps.document" >>

RowsOf(f) ==
    IF f = RootId THEN {RowS, RowT, RowC}
    ELSE IF f = SubId THEN {RowA, RowB, RowT, RowS}
    ELSE {RowA, RowS}

DisplayName(f) ==
    IF f = RootId THEN NameRoot ELSE IF f = SubId THEN NameSub ELSE NameDir

Remotes ==
    { (RootId :> lr) @@ (SubId :> ls) @@ (DirId :> lt) :
        lr \in InjSeqs(RowsOf(RootId), MaxRows),
        ls \in InjSeqs(RowsOf(SubId), MaxRows),
        lt \in InjSeqs(RowsOf(DirId), MaxRows) }

\* what the host appends to the folder name in the page's <title>
TitleSuffix ==
    <<" ", "-", " ", "G", "o", "o", "g", "l", "e", " ", "D", "r", "i", "v", "e">>

\* the folder whose page the host serves at url
ServedFolder(url) == CHOOSE f \in FolderIds : folders_url \o f = url

\* the page at url, as far as get_folder_list reads it: the <title> text and
\* the decoded array, whose first element is null for a folder without rows
Page(rm, url) ==
    LET f == ServedFolder(url)
    IN  [title |-> DisplayName(f) \o TitleSuffix,
         folder_arr |-> << IF rm[f] = <<>> THEN None ELSE Some(rm[f]) >>]

(***************************************************************************)
(* get_folder_list.                                                        *)
(***************************************************************************)
\* folder_name_regex = ^[^ ]+ : the longest prefix without a space, or no
\* match (None) when the title is empty or starts with a space
RECURSIVE NonSpacePrefix(_)
NonSpacePrefix(s) ==
    IF s = <<>> \/ s[1] = " " THEN <<>>
    ELSE <<s[1]>> \o NonSpacePrefix(Tail(s))

folder_name_match(title) ==
    IF NonSpacePrefix(title) = <<>> THEN None ELSE Some(NonSpacePrefix(title))

\* a slice that starts one character late
file_id_late(folder) == SliceFrom(folder, IdOffset + 1)

\* folder[39:]
file_id_of(folder) == SliceFrom(folder, IdOffset)

\* folder_type_list[file] != folder_type
is_file_row(row) == row[4] # folder_type

\* a file dict whose file_contents is the empty list instead of None
file_node_empty_list(row) ==
    [file_name |-> row[3], file_id |-> row[1], file_type |-> row[4],
     file_contents |-> Some(<<>>)]

\* the dict appended for a row that is not a folder
file_node(row) ==
    [file_name |-> row[3], file_id |-> row[1], file_type |-> row[4],
     file_contents |-> None]

\* folder_list right after the title is parsed
new_folder_list(name, folder) ==
    [file_name |-> name, file_id |-> file_id_of(folder),
     file_type |-> folder_type, file_contents |-> Some(<<>>)]

\* an insert at the front instead of an append
prepend_content(fl, node) ==
    [fl EXCEPT !.file_contents = Some(<<node>> \o Get(fl.file_contents))]

\* folder_list["file_contents"].append(node)
append_content(fl, node) ==
    [fl EXCEPT !.file_contents = Some(Append(Get(fl.file_contents), node))]

\* the activation record of a call that has not fetched its page yet
entered(folder) ==
    [at |-> "enter", folder |-> folder, return_code |-> TRUE,
     folder_list |-> None, folder_contents |-> <<>>, file |-> 1]

\* "if not return_code:" after a recursive call
propagates(rc) == ~rc

\* a failing caller that hands back what it has built so far
partial_result(top) == top.folder_list

\* the tree of "return return_code, None"
failed_result(top) == None

\* A call returned <<rc, structure>> to the callers in stk: the innermost
\* caller either returns <<rc, None>> itself or appends the structure and
\* moves to its next row.
RECURSIVE deliver(_, _, _)
deliver(stk, rc, structure) ==
    IF stk = <<>> THEN [stack |-> <<>>, finished |-> TRUE, ret |-> <<rc, structure>>]
    ELSE LET top == Last(stk)
         IN  IF propagates(rc)
             THEN deliver(Front(stk), rc, failed_result(top))
             ELSE [stack |-> Append(Front(stk),
                                [top EXCEPT
                                   !.return_code = rc,
                                   !.folder_list =
                                       Some(append_content(Get(top.folder_list),
                                                           Get(structure))),
                                   !.file = top.file + 1]),
                   finished |-> FALSE, ret |-> <<TRUE, None>>]

\* the effect of a return on the state of the build
Returned(stk, rc, structure) ==
    LET d == deliver(stk, rc, structure)
    IN  /\ stack' = d.stack
        /\ IF d.finished
           THEN pc' = "listed" /\ ret' = d.ret
           ELSE pc' = pc /\ ret' = ret

\* download_folder calls get_folder_list(folder)
Start ==
    /\ pc = "start"
    /\ pc' = "building"
    /\ stack' = <<entered(folders_url \o RootId)>>
    /\ UNCHANGED <<remote, ret, fetchLog>>
    /\ UNCHANGED runVars
    /\ UNCHANGED pureVars

\* client.get(folder), the status check, and the parse up to the loop
FetchPage ==
    /\ pc = "building"
    /\ stack # <<>>
    /\ Last(stack).at = "enter"
    /\ \E status_ok \in BOOLEAN :
         LET top == Last(stack)
             page == Page(remote, top.folder)
             arr == page.folder_arr
             match == folder_name_match(page.title)
         IN  /\ fetchLog' = Append(fetchLog, [folder |-> top.folder, ok |-> status_ok])
             /\ IF ~status_ok
                THEN Returned(Front(stack), FALSE, None)
                ELSE IF IsNone(match)
                THEN pc' = "raised" /\ UNCHANGED <<stack, ret>>
                ELSE /\ stack' = Append(Front(stack),
                            [top EXCEPT
                               !.at = "loop",
                               !.folder_contents =
                                   IF IsNone(arr[1]) THEN <<>> ELSE Get(arr[1]),
                               !.folder_list =
                                   Some(new_folder_list(Get(match), top.folder))])
                     /\ UNCHANGED <<pc, ret>>
    /\ UNCHANGED remote
    /\ UNCHANGED runVars
    /\ UNCHANGED pureVars

\* one turn of the loop on a row that is not a folder
LoopFile ==
    /\ pc = "building"
    /\ stack # <<>>
    /\ LET top == Last(stack)
       IN  /\ top.at = "loop"
           /\ top.file <= Len(top.folder_contents)
           /\ is_file_row(top.folder_contents[top.file])
           /\ LET fl == append_content(Get(top.folder_list),
                                       file_node(top.folder_contents[top.file]))
              IN  IF ~top.return_code
                  THEN Returned(Front(stack), top.return_code, None)
                  ELSE /\ stack' = Append(Front(stack),
                              [top EXCEPT !.folder_list = Some(fl),
                                          !.file = top.file + 1])
                       /\ UNCHANGED <<pc, ret>>
    /\ UNCHANGED <<remote, fetchLog>>
    /\ UNCHANGED runVars
    /\ UNCHANGED pureVars

\* one turn of the loop on a folder row: the recursive call
LoopFolder ==
    /\ pc = "building"
    /\ stack # <<>>
    /\ LET top == Last(stack)
       IN  /\ top.at = "loop"
           /\ top.file <= Len(top.folder_contents)
           /\ ~is_file_row(top.folder_contents[top.file])
           /\ IF Len(stack) >= StackCap
              THEN pc' = "overflow" /\ UNCHANGED stack
              ELSE /\ stack' = Append(stack,
                          entered(folders_url \o top.folder_contents[top.file][1]))
                   /\ UNCHANGED pc
    /\ UNCHANGED <<remote, ret, fetchLog>>
    /\ UNCHANGED runVars
    /\ UNCHANGED pureVars

\* the loop is over: return return_code, folder_list
ReturnList ==
    /\ pc = "building"
    /\ stack # <<>>
    /\ LET top == Last(stack)
       IN  /\ top.at = "loop"
           /\ top.file > Len(top.folder_contents)
           /\ Returned(Front(stack), top.return_code, top.folder_list)
    /\ UNCHANGED <<remote, fetchLog>>
    /\ UNCHANGED runVars
    /\ UNCHANGED pureVars

(***************************************************************************)
(* get_directory_structure.                                                *)
(***************************************************************************)
\* previous_path / file["file_name"]
JoinPath(previous_path, name) == Append(previous_path, name)

\* file["file_type"] == folder_type
is_folder_node(file) == file.file_type = folder_type

\* the tuple appended for a folder: (None, path)
folder_entry(path) == <<None, path>>

\* the tuple appended for a file: (file_id, path)
file_entry(file, path) == <<Some(file.file_id), path>>

\* what one child contributes, given what its own subtree contributes
child_entries(file, previous_path, below) ==
    IF is_folder_node(file)
    THEN <<folder_entry(JoinPath(previous_path, file.file_name))>> \o below
    ELSE IF IsNone(file.file_contents)
    THEN <<file_entry(file, JoinPath(previous_path, file.file_name))>>
    ELSE <<>>

RECURSIVE get_directory_structure(_, _)
RECURSIVE structure_from(_, _, _)
\* the loop of get_directory_structure from child i on
structure_from(contents, previous_path, i) ==
    IF i > Len(contents) THEN <<>>
    ELSE LET file == contents[i]
             below == IF is_folder_node(file)
                      THEN get_directory_structure(
                               file, JoinPath(previous_path, file.file_name))
                      ELSE <<>>
         IN  child_entries(file, previous_path, below)
                 \o structure_from(contents, previous_path, i + 1)

get_directory_structure(directory, previous_path) ==
    structure_from(Get(directory.file_contents), previous_path, 1)

(***************************************************************************)
(* download_folder.                                                        *)
(***************************************************************************)
\* the output directory, which exists before the run
Output == << <<"o", "u", "t">> >>

\* output / folder_list["file_name"]
root_path(folder_list) == JoinPath(Output, folder_list.file_name)

\* the directory that holds path
Parent(path) == Front(path)

\* mkdir(parents=True, exist_ok=True): path and every missing ancestor
mkdir_parents(ds, path) == ds \cup { SubSeq(path, 1, n) : n \in 1..Len(path) }

\* what download() can report for a destination: it cannot write into a
\* directory that does not exist
download_outcomes(ds, path) == IF Parent(path) \in ds THEN BOOLEAN ELSE {FALSE}

\* a loop that goes on after a failed download
never_aborts(rc) == FALSE

\* "if not return_code: ... return return_code" after a download
aborts(rc) == ~rc

\* the return of get_folder_list is checked and the list of paths is built
BuildStructure ==
    /\ pc = "listed"
    /\ IF ~ret[1]
       THEN /\ pc' = "done"
            /\ return_code' = ret[1]
            /\ UNCHANGED directory_structure
       ELSE /\ pc' = "run"
            /\ return_code' = ret[1]
            /\ directory_structure' =
                   get_directory_structure(Get(ret[2]), root_path(Get(ret[2])))
    /\ UNCHANGED <<k, dirs, files, executed>>
    /\ UNCHANGED buildVars
    /\ UNCHANGED pureVars

\* one turn of the loop on a folder entry: mkdir and continue
RunMkdir ==
    /\ pc = "run"
    /\ k <= Len(directory_structure)
    /\ IsNone(directory_structure[k][1])
    /\ dirs' = mkdir_parents(dirs, directory_structure[k][2])
    /\ executed' = Append(executed, [idx |-> k, ok |-> TRUE])
    /\ k' = k + 1
    /\ UNCHANGED <<pc, directory_structure, files, return_code>>
    /\ UNCHANGED buildVars
    /\ UNCHANGED pureVars

\* one turn of the loop on a file entry: download, and return on failure
RunDownload ==
    /\ pc = "run"
    /\ k <= Len(directory_structure)
    /\ ~IsNone(directory_structure[k][1])
    /\ \E rc \in download_outcomes(dirs, directory_structure[k][2]) :
         /\ return_code' = rc
         /\ files' = IF rc THEN files \cup {directory_structure[k][2]} ELSE files
         /\ executed' = Append(executed, [idx |-> k, ok |-> rc])
         /\ IF aborts(rc)
            THEN pc' = "done" /\ k' = k
            ELSE pc' = pc /\ k' = k + 1
    /\ UNCHANGED <<directory_structure, dirs>>
    /\ UNCHANGED buildVars
    /\ UNCHANGED pureVars

\* the loop is over: return return_code
RunEnd ==
    /\ pc = "run"
    /\ k > Len(directory_structure)
    /\ pc' = "done"
    /\ UNCHANGED runVars
    /\ UNCHANGED buildVars
    /\ UNCHANGED pureVars

(***************************************************************************)
(* The extraction of the encoded array from a page (the first part of      *)
(* get_folder_list), on its own.  A page is the list of its script blocks; *)
(* a block is its text, in which "D" stands for the marker _DRIVE_ivd.     *)
(***************************************************************************)
ScriptChars == {"'", "\\", "D", "x", "\n"}

ScriptsUpTo(n) == UNION { [1..m -> ScriptChars] : m \in 0..n }

\* pages of no, one or two script blocks, n characters in all
PagesUpTo(n) ==
    {<<>>}
    \cup { <<b>> : b \in ScriptsUpTo(n) }
    \cup UNION { { <<b1, b2>> : b2 \in ScriptsUpTo(n - Len(b1)) } :
                 b1 \in ScriptsUpTo(n) }

\* "_DRIVE_ivd" in inner_html
has_marker(block) == \E i \in DOMAIN block : block[i] = "D"

\* string_regex after its opening quote: (?:[^'\\]|\\.)*' from position i;
\* the position of the closing quote, or 0 when there is no match.  A
\* backslash takes the next character with it, a newline excepted.
RECURSIVE literal_end(_, _)
literal_end(text, i) ==
    IF i > Len(text) THEN 0
    ELSE IF text[i] = "'" THEN i
    ELSE IF text[i] = "\\"
    THEN IF i + 1 <= Len(text) /\ text[i + 1] # "\n"
         THEN literal_end(text, i + 2)
         ELSE 0
    ELSE literal_end(text, i + 1)

\* string_regex.finditer(text) from position p: the matches from left to
\* right, none overlapping, each as [from, to, group1]
RECURSIVE finditer(_, _)
finditer(text, p) ==
    IF p > Len(text) THEN <<>>
    ELSE LET e == IF text[p] = "'" THEN literal_end(text, p + 1) ELSE 0
         IN  IF e # 0
             THEN <<[from |-> p, to |-> e, group1 |-> SubSeq(text, p + 1, e - 1)]>>
                      \o finditer(text, e + 1)
             ELSE finditer(text, p + 1)

\* next(islice(regex_iter, 1, None)).group(1), or the RuntimeError
second_string(block) ==
    LET ms == finditer(block, 1)
    IN  IF Len(ms) >= 2
        THEN [kind |-> "payload", data |-> ms[2].group1]
        ELSE [kind |-> "PayloadNotFound", data |-> <<>>]

\* the loop over the script blocks, and the error after it
RECURSIVE find_encoded_data(_, _)
find_encoded_data(scripts, i) ==
    IF i > Len(scripts) THEN [kind |-> "StructureNotFound", data |-> <<>>]
    ELSE IF has_marker(scripts[i]) THEN second_string(scripts[i])
    ELSE find_encoded_data(scripts, i + 1)

Extract ==
    /\ pc = "extract"
    /\ encoded_data' = find_encoded_data(inner_html, 1)
    /\ pc' = "extracted"
    /\ UNCHANGED <<inner_html, entry_id, node_id>>
    /\ UNCHANGED buildVars
    /\ UNCHANGED runVars

(***************************************************************************)
(* The url of a recursive call and the id the callee reads back from it.   *)
(***************************************************************************)
IdChars == {"a", "1", "/", "-"}

EntryIdsUpTo(n) == UNION { [1..m -> IdChars] : m \in 0..n }

\* get_folder_list(folders_url + id) and folder_list["file_id"] = folder[39:]
ResolveEntry ==
    /\ pc = "url"
    /\ node_id' = file_id_of(folders_url \o entry_id)
    /\ pc' = "resolved"
    /\ UNCHANGED <<inner_html, encoded_data, entry_id>>
    /\ UNCHANGED buildVars
    /\ UNCHANGED runVars

Idle ==
    /\ remote = (RootId :> <<>>) @@ (SubId :> <<>>) @@ (DirId :> <<>>)
    /\ stack = <<>>
    /\ ret = <<TRUE, None>>
    /\ fetchLog = <<>>
    /\ directory_structure = <<>>
    /\ k = 1
    /\ dirs = mkdir_parents({}, Output)
    /\ files = {}
    /\ executed = <<>>
    /\ return_code = TRUE

Init ==
    /\ remote \in Remotes
    /\ stack = <<>>
    /\ pc = "start"
    /\ ret = <<TRUE, None>>
    /\ fetchLog = <<>>
    /\ directory_structure = <<>>
    /\ k = 1
    /\ dirs = mkdir_parents({}, Output)
    /\ files = {}
    /\ executed = <<>>
    /\ return_code = TRUE
    /\ inner_html = <<>>
    /\ encoded_data = [kind |-> "none", data |-> <<>>]
    /\ entry_id = <<>>
    /\ node_id = <<>>

Next ==
    \/ Start
    \/ FetchPage
    \/ LoopFile
    \/ LoopFolder
    \/ ReturnList
    \/ BuildStructure
    \/ RunMkdir
    \/ RunDownload
    \/ RunEnd

Spec == Init /\ [][Next]_vars

\* the program runs on until download_folder returns or raises
FairSpec == Spec /\ WF_vars(Next)

InitExtract ==
    /\ Idle
    /\ pc = "extract"
    /\ inner_html \in PagesUpTo(MaxScriptLen)
    /\ encoded_data = [kind |-> "none", data |-> <<>>]
    /\ entry_id = <<>>
    /\ node_id = <<>>

SpecExtract == InitExtract /\ [][Extract]_vars

InitUrl ==
    /\ Idle
    /\ pc = "url"
    /\ inner_html = <<>>
    /\ encoded_data = [kind |-> "none", data |-> <<>>]
    /\ entry_id \in EntryIdsUpTo(MaxIdLen)
    /\ node_id = <<>>

SpecUrl == InitUrl /\ [][ResolveEntry]_vars

(***************************************************************************)
(* Notions the properties are stated with.                                 *)
(***************************************************************************)
\* the children of a node of the tree (none for a node without a list)
Kids(n) == IF IsNone(n.file_contents) THEN <<>> ELSE Get(n.file_contents)

\* get_folder_list has returned to download_folder, or raised a parse error
BuildEnded == pc \in {"listed", "run", "done", "raised"}
BuildSucceeded == pc \in {"listed", "run", "done"} /\ ret[1]
Tree == Get(ret[2])
AnyFetchFailed == \E i \in DOMAIN fetchLog : ~fetchLog[i].ok

\* FOLDER exactly when the children are a list, at every node
RECURSIVE KindsAgree(_)
KindsAgree(n) ==
    /\ (n.file_type = folder_type) <=> ~IsNone(n.file_contents)
    /\ \A i \in DOMAIN Kids(n) : KindsAgree(Kids(n)[i])

\* under every folder node, one child per row of its page, a FOLDER exactly
\* for the rows whose type is the folder type
RECURSIVE RowsBecomeNodes(_, _)
RowsBecomeNodes(n, rm) ==
    \/ IsNone(n.file_contents)
    \/ /\ n.file_id \in DOMAIN rm
       /\ Len(Kids(n)) = Len(rm[n.file_id])
       /\ \A i \in DOMAIN Kids(n) :
            /\ (Kids(n)[i].file_type = folder_type)
                   <=> (rm[n.file_id][i][4] = folder_type)
            /\ RowsBecomeNodes(Kids(n)[i], rm)

\* the number of nodes in a list of subtrees
RECURSIVE CountNodes(_)
CountNodes(nodes) ==
    IF nodes = <<>> THEN 0
    ELSE 1 + CountNodes(Kids(Head(nodes))) + CountNodes(Tail(nodes))

\* the urls of the folder nodes of a list of subtrees, in pre-order
RECURSIVE FolderUrls(_)
FolderUrls(nodes) ==
    IF nodes = <<>> THEN <<>>
    ELSE (IF Head(nodes).file_type = folder_type
          THEN <<folders_url \o Head(nodes).file_id>> \o FolderUrls(Kids(Head(nodes)))
          ELSE <<>>)
         \o FolderUrls(Tail(nodes))

\* under every folder node, the children carry the ids of the rows, in order
RECURSIVE ListingOrder(_, _)
ListingOrder(n, rm) ==
    \/ IsNone(n.file_contents)
    \/ /\ n.file_id \in DOMAIN rm
       /\ [i \in DOMAIN Kids(n) |-> Kids(n)[i].file_id]
              = [i \in DOMAIN rm[n.file_id] |-> rm[n.file_id][i][1]]
       /\ \A i \in DOMAIN Kids(n) : ListingOrder(Kids(n)[i], rm)

\* under every folder node, a folder child is named as its row names it
RECURSIVE FolderNamesKept(_, _)
FolderNamesKept(n, rm) ==
    \/ IsNone(n.file_contents)
    \/ /\ n.file_id \in DOMAIN rm
       /\ Len(Kids(n)) = Len(rm[n.file_id])
       /\ \A i \in DOMAIN Kids(n) :
            /\ Kids(n)[i].file_type = folder_type
                   => Kids(n)[i].file_name = rm[n.file_id][i][3]
            /\ FolderNamesKept(Kids(n)[i], rm)

\* the folders listed in the page of f
SubFolders(rm, f) ==
    { rm[f][i][1] : i \in { j \in DOMAIN rm[f] : rm[f][j][4] = folder_type } }

RECURSIVE Closure(_, _, _)
Closure(rm, S, n) ==
    IF n = 0 THEN S
    ELSE Closure(rm, S \cup UNION { SubFolders(rm, f) : f \in S }, n - 1)

\* the folders below f
Below(rm, f) == Closure(rm, SubFolders(rm, f), Cardinality(DOMAIN rm))

\* no folder the build can come to lies below itself
Acyclic(rm) == \A f \in {RootId} \cup Below(rm, RootId) : f \notin Below(rm, f)

\* the plan of a list of subtrees as the design describes it
RECURSIVE PreOrderPlan(_, _)
PreOrderPlan(nodes, parentPath) ==
    IF nodes = <<>> THEN <<>>
    ELSE LET n == Head(nodes)
             path == Append(parentPath, n.file_name)
         IN  (IF IsNone(n.file_contents)
              THEN << <<Some(n.file_id), path>> >>
              ELSE << <<None, path>> >> \o PreOrderPlan(Kids(n), path))
             \o PreOrderPlan(Tail(nodes), parentPath)

(***************************************************************************)
(* The properties.                                                         *)
(***************************************************************************)
\* C1: download_folder processes the entries in plan order, and when a
\* download fails it is the last entry processed: nothing after it runs, the
\* directories and files of the entries before it are still there, and the
\* result is failure.
C1_AbortOnFirstFailure ==
    \A j \in DOMAIN executed :
        /\ executed[j].idx = j
        /\ j <= Len(directory_structure)
        /\ executed[j].ok =>
              IF IsNone(directory_structure[j][1])
              THEN directory_structure[j][2] \in dirs
              ELSE directory_structure[j][2] \in files
        /\ ~executed[j].ok =>
              /\ j = Len(executed)
              /\ pc = "done"
              /\ return_code = FALSE

\* a download failed after a directory was made and a file fetched, with
\* entries of the plan still to come
C1_Witness ==
    /\ pc = "done"
    /\ ~return_code
    /\ Len(executed) >= 3
    /\ ~Last(executed).ok
    /\ Len(executed) < Len(directory_structure)
    /\ files # {}

\* C2: once the page fetch of any folder has failed, get_folder_list on the
\* root has returned failure and no tree.
C2_NoPartialTree ==
    /\ AnyFetchFailed => pc \in {"listed", "done"} /\ ret = <<FALSE, None>>
    /\ ~ret[1] => IsNone(ret[2])

\* the page of a folder two levels down failed after a sibling was resolved
C2_Witness ==
    /\ pc = "listed"
    /\ ret = <<FALSE, None>>
    /\ remote[RootId] = <<RowC, RowS>>
    /\ remote[SubId] = <<RowA, RowT>>
    /\ Len(fetchLog) = 3
    /\ ~fetchLog[3].ok

\* C3: the plan is MkDir(root) followed by the pre-order traversal of the
\* tree under the root path.
C3_PlanStartsWithRoot ==
    (BuildSucceeded /\ pc \in {"run", "done"}) =>
        directory_structure =
            << <<None, root_path(Tree)>> >>
                \o PreOrderPlan(Kids(Tree), root_path(Tree))

\* C4: when a file is about to be fetched, the directory that holds its
\* path exists.
C4_DirectoryBeforeFetch ==
    (pc = "run" /\ k <= Len(directory_structure)
        /\ ~IsNone(directory_structure[k][1]))
    => Parent(directory_structure[k][2]) \in dirs

\* C5: in a returned tree a node is a FOLDER exactly when its children are
\* a list, a row became a FOLDER node exactly when its type is the folder
\* type, and the plan has one entry for every node below the root.
C5_KindsAndPlan ==
    BuildSucceeded =>
        /\ KindsAgree(Tree)
        /\ RowsBecomeNodes(Tree, remote)
        /\ pc \in {"run", "done"} =>
              Len(directory_structure) = CountNodes(Kids(Tree))

\* a tree with files, a folder in a folder and an empty folder was planned
C5_Witness ==
    /\ pc = "run"
    /\ ret[1]
    /\ remote[RootId] = <<RowS, RowC>>
    /\ remote[SubId] = <<RowA, RowT>>
    /\ remote[DirId] = <<>>
    /\ Len(directory_structure) = 4

\* the fetches are those of the folder nodes, one each, and the children
\* are in listing order
C6_FetchesAndOrder ==
    BuildSucceeded =>
        /\ [i \in DOMAIN fetchLog |-> fetchLog[i].folder] = FolderUrls(<<Tree>>)
        /\ ListingOrder(Tree, remote)

\* C6: get_folder_list comes to an end on every acyclic structure; when it
\* succeeds it has fetched one page per folder node and none for a file,
\* and the children of every node are in listing order.
C6_TerminatesOneFetchPerFolder ==
    /\ [](C6_FetchesAndOrder)
    /\ (Acyclic(remote) ~> BuildEnded)

\* three folders were resolved, files among them, with nothing refetched
C6_Witness ==
    /\ pc = "listed"
    /\ ret[1]
    /\ remote[RootId] = <<RowC, RowS>>
    /\ remote[SubId] = <<RowT, RowB>>
    /\ remote[DirId] = <<RowA>>
    /\ Len(fetchLog) = 3

\* C7: get_folder_list never runs into the limit of the call stack: a
\* folder that lies below itself ends the build with a failure instead.
C7_NeverExhaustsStack == pc # "overflow"

\* the payload as the design describes it: of the string literals that hold the
\* marker or start after it, the second one
ExpectedPayload(block) ==
    LET q == CHOOSE i \in DOMAIN block :
                 block[i] = "D" /\ \A j \in 1..(i - 1) : block[j] # "D"
        ms == finditer(block, 1)
        after == SelectSeq(ms, LAMBDA m : m.to > q)
    IN  IF Len(after) >= 2
        THEN [kind |-> "payload", data |-> after[2].group1]
        ELSE [kind |-> "PayloadNotFound", data |-> <<>>]

\* C8: the payload is the second string literal after the marker, whatever
\* literals come before the marker; no block with the marker is
\* structure-not-found, fewer than two literals after it payload-not-found.
C8_SecondLiteralAfterMarker ==
    pc = "extracted" =>
        IF \A i \in DOMAIN inner_html : ~has_marker(inner_html[i])
        THEN encoded_data.kind = "StructureNotFound"
        ELSE encoded_data =
                 ExpectedPayload(
                     inner_html[CHOOSE i \in DOMAIN inner_html :
                                    /\ has_marker(inner_html[i])
                                    /\ \A j \in 1..(i - 1) : ~has_marker(inner_html[j])])

\* C9: the id read back from the url of a recursive call is the id of the
\* entry, for every id.
C9_IdRoundTrip == pc = "resolved" => node_id = entry_id

\* an id of several characters, a slash first, went through the url
C9_Witness ==
    /\ pc = "resolved"
    /\ Len(entry_id) >= 2
    /\ entry_id[1] = "/"
    /\ node_id = entry_id

\* C10: a folder node is named as the row for it in its parent's page
\* names it, spaces included.
C10_FolderNameKept == BuildSucceeded => FolderNamesKept(Tree, remote)
====
